---- MODULE Spec2Model ----
(***************************************************************************)
(* Model of scripts/cluster_region.py (and of the older copy in            *)
(* notebooks/cluster_region.py where the two differ).                      *)
(*                                                                         *)
(* Text is a sequence of one-character strings, so that rstrip, split and  *)
(* int act on characters as the Python built-ins do.  A float fraction is  *)
(* the exact rational [num, den] with den > 0.  Python's None is the       *)
(* string "None", the float 0.0 is "0.0", the int 1 is "1" and the float   *)
(* 0.5 is "0.5".                                                           *)
(***************************************************************************)
EXTENDS Integers, Sequences, FiniteSets, TLC

VARIABLES pc, args, clustered, files, highlights, bedfile, binarized_bed,
          bedlines, results, label_to_arr, cidx_to_line, stdout, status,
          inp, out

vars == <<pc, args, clustered, files, highlights, bedfile, binarized_bed,
          bedlines, results, label_to_arr, cidx_to_line, stdout, status,
          inp, out>>

mainvars == <<args, clustered, files, highlights, bedfile, binarized_bed,
              bedlines, results, label_to_arr, cidx_to_line, stdout, status>>

(***************************************************************************)
(* Bounds of the model.                                                    *)
(***************************************************************************)
\* Region coordinates range over PosBase..PosBase+MaxPos, read coordinates
\* over one position more on either side
PosBase == 8
MaxPos == 2
\* block offsets and block lengths range over 0..MaxBlock
MaxBlock == 2
\* an occupancy vector handed to pct_full has 0..MaxVec entries
MaxVec == 4

Min(a, b) == IF a < b THEN a ELSE b

(***************************************************************************)
(* Python built-ins on text.                                               *)
(***************************************************************************)
Digits == <<"0", "1", "2", "3", "4", "5", "6", "7", "8", "9">>
Whitespace == {" ", "\t", "\n"}

IsDigit(c) == \E d \in 1..10 : Digits[d] = c
DigitVal(c) == (CHOOSE d \in 1..10 : Digits[d] = c) - 1

\* str.rstrip(): drop the trailing whitespace
RECURSIVE rstrip(_)
rstrip(s) ==
    IF s = <<>> THEN s
    ELSE IF s[Len(s)] \in Whitespace THEN rstrip(SubSeq(s, 1, Len(s) - 1))
    ELSE s

\* str.split(sep): the fields between the separators, always at least one
RECURSIVE split(_, _)
split(s, sep) ==
    IF \E i \in 1..Len(s) : s[i] = sep
    THEN LET i == CHOOSE j \in 1..Len(s) :
                      s[j] = sep /\ \A k \in 1..(j - 1) : s[k] # sep
         IN <<SubSeq(s, 1, i - 1)>> \o split(SubSeq(s, i + 1, Len(s)), sep)
    ELSE <<s>>

\* the text int() converts: an optional sign, then at least one digit
\* (surrounding blanks and digit-group underscores are not in the alphabet)
int_accepts(s) ==
    LET body == IF s # <<>> /\ s[1] \in {"+", "-"} THEN Tail(s) ELSE s
    IN body # <<>> /\ \A i \in 1..Len(body) : IsDigit(body[i])

RECURSIVE NatOf(_)
NatOf(ds) ==
    IF ds = <<>> THEN 0
    ELSE 10 * NatOf(SubSeq(ds, 1, Len(ds) - 1)) + DigitVal(ds[Len(ds)])

\* int(s) for a text int_accepts
int(s) ==
    IF s[1] = "-" THEN 0 - NatOf(Tail(s))
    ELSE IF s[1] = "+" THEN NatOf(Tail(s))
    ELSE NatOf(s)

\* str(n) / "{}".format(n) of an integer
RECURSIVE StrNat(_)
StrNat(n) ==
    IF n < 10 THEN <<Digits[n + 1]>>
    ELSE StrNat(n \div 10) \o <<Digits[(n % 10) + 1]>>

Str(n) == IF n < 0 THEN <<"-">> \o StrNat(0 - n) ELSE StrNat(n)

\* sep.join(xs)
RECURSIVE Join(_, _)
Join(xs, sep) ==
    IF xs = <<>> THEN <<>>
    ELSE IF Len(xs) = 1 THEN xs[1]
    ELSE xs[1] \o <<sep>> \o Join(Tail(xs), sep)

Raise(e) == [kind |-> "raise", exc |-> e]
Return(v) == [kind |-> "return", val |-> v]

(***************************************************************************)
(* bed_line_cluster_array                                                  *)
(***************************************************************************)
None == "None"
Linker == "0.0"
Occupied == "1"

\* [int(x) for x in field.split(",")]: the list, or the first failure
IntList(field) ==
    LET xs == split(field, ",")
    IN IF \A i \in 1..Len(xs) : int_accepts(xs[i])
       THEN Return([i \in 1..Len(xs) |-> int(xs[i])])
       ELSE Raise("ValueError")

\* zip(starts, blocks): pairs up to the shorter list
zip(xs, ys) == [i \in 1..Min(Len(xs), Len(ys)) |-> <<xs[i], ys[i]>>]

\* the span pass: every Region position of range(read_start, read_stop + 1)
SpanPass(cluster_idxs, read_start, read_stop) ==
    [pos \in DOMAIN cluster_idxs |->
        IF pos \in read_start..read_stop THEN Linker ELSE cluster_idxs[pos]]

\* one block: every Region position of
\* range(read_start + st, read_start + st + bl + 1)
MarkBlock(cluster_idxs, read_start, st, bl) ==
    [pos \in DOMAIN cluster_idxs |->
        IF pos \in (read_start + st)..(read_start + st + bl)
        THEN Occupied ELSE cluster_idxs[pos]]

\* the block pass, pair by pair in list order
RECURSIVE BlockPass(_, _, _)
BlockPass(cluster_idxs, read_start, pairs) ==
    IF pairs = <<>> THEN cluster_idxs
    ELSE BlockPass(MarkBlock(cluster_idxs, read_start, pairs[1][1], pairs[1][2]),
                   read_start, Tail(pairs))

\* slip: range(cluster_start, cluster_stop), the last position left out
ClusterIdxs_NoLast(cluster_start, cluster_stop, read_start, read_stop, starts, blocks) ==
    BlockPass(SpanPass([pos \in cluster_start..(cluster_stop - 1) |-> None],
                       read_start, read_stop),
              read_start, zip(starts, blocks))

\* slip: the span pass run after the block pass
ClusterIdxs_SpanLast(cluster_start, cluster_stop, read_start, read_stop, starts, blocks) ==
    SpanPass(BlockPass([pos \in cluster_start..cluster_stop |-> None],
                       read_start, zip(starts, blocks)),
             read_start, read_stop)

\* the mapping built over range(cluster_start, cluster_stop + 1)
ClusterIdxs(cluster_start, cluster_stop, read_start, read_stop, starts, blocks) ==
    BlockPass(SpanPass([pos \in cluster_start..cluster_stop |-> None],
                       read_start, read_stop),
              read_start, zip(starts, blocks))

\* the values of the mapping in ascending key order
SortedValues(cluster_idxs) ==
    LET keys == DOMAIN cluster_idxs
        nth(i) == CHOOSE k \in keys : Cardinality({j \in keys : j < k}) = i - 1
    IN [i \in 1..Cardinality(keys) |-> cluster_idxs[nth(i)]]

bed_line_cluster_array(line, cluster_start, cluster_stop) ==
    LET f == split(rstrip(line), "\t")
    IN IF Len(f) < 2 THEN Raise("IndexError")
       ELSE IF ~int_accepts(f[2]) THEN Raise("ValueError")
       ELSE IF Len(f) < 3 THEN Raise("IndexError")
       ELSE IF ~int_accepts(f[3]) THEN Raise("ValueError")
       ELSE IF Len(f) < 11 THEN Raise("IndexError")
       ELSE IF IntList(f[11]).kind = "raise" THEN IntList(f[11])
       ELSE IF Len(f) < 12 THEN Raise("IndexError")
       ELSE IF IntList(f[12]).kind = "raise" THEN IntList(f[12])
       ELSE Return(SortedValues(
                ClusterIdxs(cluster_start, cluster_stop, int(f[2]), int(f[3]),
                            IntList(f[12]).val, IntList(f[11]).val)))

(***************************************************************************)
(* pct_full, convert_nones                                                 *)
(***************************************************************************)
CountNone(arr) == Cardinality({i \in 1..Len(arr) : arr[i] = None})

\* slip: the guard on the empty vector left out
pct_full_Unguarded(arr) ==
    IF Len(arr) = 0 THEN Raise("ZeroDivisionError")
    ELSE Return([num |-> Len(arr) - CountNone(arr), den |-> Len(arr)])

\* scripts/cluster_region.py: 1. - float(n_none) / len(arr), 0.0 when empty
pct_full(arr) ==
    IF Len(arr) = 0 THEN Return([num |-> 0, den |-> 1])
    ELSE Return([num |-> Len(arr) - CountNone(arr), den |-> Len(arr)])

\* notebooks/cluster_region.py: the division is unguarded
nb_pct_full(arr) ==
    IF Len(arr) = 0 THEN Raise("ZeroDivisionError")
    ELSE Return([num |-> Len(arr) - CountNone(arr), den |-> Len(arr)])

\* a > b on fractions
Greater(a, b) == a.num * b.den > b.num * a.den

\* slip: >= for >
Keep_NonStrict(frac, pct) == frac.num * pct.den >= pct.num * frac.den

\* the test of main: pct_full(arr) > args.pct
Keep(frac, pct) == Greater(frac, pct)

convert_nones(arr) ==
    [i \in 1..Len(arr) |-> IF arr[i] # None THEN arr[i] ELSE "0.5"]

(***************************************************************************)
(* split_clusters, split_lines_by_clusters                                 *)
(***************************************************************************)
\* slip: d[k].insert(0, v)
DictAppend_Prepend(d, k, v) ==
    IF k \in DOMAIN d THEN [d EXCEPT ![k] = <<v>> \o @]
    ELSE d @@ (k :> <<v>>)

\* defaultdict(list): d[k].append(v)
DictAppend(d, k, v) ==
    IF k \in DOMAIN d THEN [d EXCEPT ![k] = Append(@, v)]
    ELSE d @@ (k :> <<v>>)

RECURSIVE AppendPairs(_, _)
AppendPairs(d, pairs) ==
    IF pairs = <<>> THEN d
    ELSE AppendPairs(DictAppend(d, pairs[1][1], pairs[1][2]), Tail(pairs))

\* slip: label = cresults[idx - 1], the labels shifted by one (index -1 wraps)
split_clusters_Shifted(cresults, carrays) ==
    AppendPairs(<<>>, [i \in 1..Len(carrays) |->
        <<cresults[((i - 2) % Len(carrays)) + 1], carrays[i]>>])

\* for idx, res in enumerate(carrays): labels[cresults[idx]].append(res)
split_clusters(cresults, carrays) ==
    AppendPairs(<<>>, [i \in 1..Len(carrays) |-> <<cresults[i], carrays[i]>>])

\* slip: cidx_to_line[cidx] = [line], the group started anew by every line
split_lines_by_clusters_Overwrite(cresults, lines) ==
    [cidx \in {cresults[i] : i \in 1..Min(Len(cresults), Len(lines))} |->
        <<lines[CHOOSE i \in 1..Min(Len(cresults), Len(lines)) :
                    /\ cresults[i] = cidx
                    /\ \A j \in 1..Min(Len(cresults), Len(lines)) :
                           cresults[j] = cidx => j <= i]>>]

\* for cidx, line in zip(cresults, bedlines): cidx_to_line[cidx].append(line)
split_lines_by_clusters(cresults, lines) ==
    AppendPairs(<<>>, zip(cresults, lines))

(***************************************************************************)
(* parse_highlights                                                        *)
(***************************************************************************)
\* slip: the start taken as written
ClampStart_None(start, region_start) == start

ClampStart(start, region_start) ==
    IF start > region_start THEN start ELSE region_start

ClampEnd(end, region_end) ==
    IF end < region_end THEN end ELSE region_end

parse_highlights(s, region_start, region_end) ==
    LET xs == split(s, ":")
        strand == xs[Len(xs)]
        ys == split(xs[1], "-")
    IN IF ~int_accepts(ys[1]) THEN Raise("ValueError")
       ELSE IF Len(ys) < 2 THEN Raise("IndexError")
       ELSE IF ~int_accepts(ys[2]) THEN Raise("ValueError")
       ELSE Return([start |-> ClampStart(int(ys[1]), region_start),
                    end |-> ClampEnd(int(ys[2]), region_end),
                    strand |-> strand])

(***************************************************************************)
(* Input text: a BED12 line, a highlight specification.                    *)
(***************************************************************************)
StrList(xs) == Join([i \in 1..Len(xs) |-> Str(xs[i])], ",")

\* chrom, start, stop, name, score, strand, thickStart, thickEnd, itemRgb,
\* blockCount, blockSizes, blockStarts
BedFields(read_start, read_stop, blocks, starts) ==
    << <<"c">>, Str(read_start), Str(read_stop), <<"r">>, <<"0">>, <<"+">>,
       Str(read_start), Str(read_stop), <<"0">>, Str(Len(blocks)),
       StrList(blocks), StrList(starts) >>

BedLine(fields) == Join(fields, "\t") \o <<"\n">>

\* "{start}-{end}:{strand}"
HighlightText(start, end, strand) ==
    Str(start) \o <<"-">> \o Str(end) \o <<":">> \o strand

(***************************************************************************)
(* The functions applied to bounded inputs.                                *)
(***************************************************************************)
Pending == [kind |-> "pending"]

Idle ==
    /\ args = <<>> /\ clustered = <<>> /\ files = <<>> /\ highlights = <<>>
    /\ bedfile = <<>> /\ binarized_bed = <<>> /\ bedlines = <<>>
    /\ results = <<>> /\ label_to_arr = <<>> /\ cidx_to_line = <<>>
    /\ stdout = <<>> /\ status = <<>>

RegionPos == PosBase..(PosBase + MaxPos)
ReadPos == (PosBase - 1)..(PosBase + MaxPos + 1)
BlockVals == 0..MaxBlock
BlockLists == {<<a>> : a \in BlockVals} \cup (BlockVals \X BlockVals)

\* text that int() rejects
NonInteger == { <<"x">>, <<>>, <<"1", ",", "x">>, <<"1", ",">>, <<"1", ".", "5">> }

VecCall(shape, fields, cs, ce, rs, re, bl, st) ==
    [fn |-> "bed_line_cluster_array", shape |-> shape, fields |-> fields,
     line |-> BedLine(fields), cluster_start |-> cs, cluster_stop |-> ce,
     read_start |-> rs, read_stop |-> re, blocks |-> bl, starts |-> st]

\* well-formed fields; the two block lists may differ in length
RecordCalls ==
    { VecCall("record", BedFields(rs, re, bl, st), cs, ce, rs, re, bl, st) :
        cs \in {PosBase, PosBase + 1}, ce \in RegionPos,
        rs \in ReadPos, re \in ReadPos, bl \in BlockLists, st \in BlockLists }

\* the first n fields of a well-formed line
TruncatedCalls ==
    { VecCall("truncated", SubSeq(BedFields(cs, ce, <<1>>, <<0>>), 1, n),
              cs, ce, cs, ce, <<1>>, <<0>>) :
        cs \in {PosBase, PosBase + 1}, ce \in RegionPos, n \in 0..11 }

\* a well-formed line with one of the integer fields replaced
SpoiledCalls ==
    { VecCall("spoiled", [BedFields(cs, ce, <<1>>, <<0>>) EXCEPT ![j] = t],
              cs, ce, cs, ce, <<1>>, <<0>>) :
        cs \in {PosBase, PosBase + 1}, ce \in RegionPos,
        j \in {2, 3, 11, 12}, t \in NonInteger }

InitVec ==
    /\ pc = "call"
    /\ inp \in RecordCalls \cup TruncatedCalls \cup SpoiledCalls
    /\ out = Pending
    /\ Idle

CallBedLine ==
    /\ pc = "call"
    /\ inp.fn = "bed_line_cluster_array"
    /\ out' = bed_line_cluster_array(inp.line, inp.cluster_start, inp.cluster_stop)
    /\ pc' = "returned"
    /\ UNCHANGED <<inp, mainvars>>

SpecVec == InitVec /\ [][CallBedLine]_vars

Cells == {None, Linker, Occupied}
RECURSIVE Vectors(_)
Vectors(n) ==
    IF n = 0 THEN {<<>>}
    ELSE Vectors(n - 1) \cup
         {Append(v, c) : v \in {w \in Vectors(n - 1) : Len(w) = n - 1}, c \in Cells}

Frac(n, d) == [num |-> n, den |-> d]
Thresholds ==
    {Frac(0, 1), Frac(1, 4), Frac(1, 3), Frac(1, 2), Frac(2, 3), Frac(9, 10),
     Frac(1, 1)}

InitPct ==
    /\ pc = "call"
    /\ inp \in [fn : {"pct_full", "nb_pct_full"}, arr : Vectors(MaxVec),
                pct : Thresholds]
    /\ out = Pending
    /\ Idle

\* scripts: pct_full(arr) > args.pct
CallPctFull ==
    /\ pc = "call"
    /\ inp.fn = "pct_full"
    /\ out' = [frac |-> pct_full(inp.arr),
               kept |-> pct_full(inp.arr).kind = "return"
                        /\ Keep(pct_full(inp.arr).val, inp.pct)]
    /\ pc' = "returned"
    /\ UNCHANGED <<inp, mainvars>>

\* notebooks: pct_full(arr) > args.pct
CallNbPctFull ==
    /\ pc = "call"
    /\ inp.fn = "nb_pct_full"
    /\ out' = [frac |-> nb_pct_full(inp.arr),
               kept |-> nb_pct_full(inp.arr).kind = "return"
                        /\ Keep(nb_pct_full(inp.arr).val, inp.pct)]
    /\ pc' = "returned"
    /\ UNCHANGED <<inp, mainvars>>

SpecPct == InitPct /\ [][CallPctFull \/ CallNbPctFull]_vars

HlVals == (0 - MaxPos)..(PosBase + MaxPos + 2)
Strands == { <<"+">>, <<"-">>, <<".">> }

HlCall(start, end, strand, rs, re) ==
    [fn |-> "parse_highlights", s |-> HighlightText(start, end, strand),
     start |-> start, end |-> end, strand |-> strand,
     region_start |-> rs, region_end |-> re]

InitHl ==
    /\ pc = "call"
    /\ inp \in { HlCall(a, b, sd, rs, re) :
                   a \in HlVals, b \in HlVals, sd \in Strands,
                   rs \in {PosBase}, re \in (PosBase + 1)..(PosBase + MaxPos) }
               \cup { HlCall(0 - 50, 99999, <<"+">>, 100, 200) }
    /\ out = Pending
    /\ Idle

CallParseHighlights ==
    /\ pc = "call"
    /\ inp.fn = "parse_highlights"
    /\ out' = parse_highlights(inp.s, inp.region_start, inp.region_end)
    /\ pc' = "returned"
    /\ UNCHANGED <<inp, mainvars>>

SpecHl == InitHl /\ [][CallParseHighlights]_vars

(***************************************************************************)
(* open_clustered_beds, close_clustered_beds                               *)
(***************************************************************************)
\* Path(name).stem: the name without its last suffix
PathStem(name) ==
    LET dots == {i \in 2..Len(name) : name[i] = "."}
    IN IF dots = {} THEN name
       ELSE SubSeq(name, 1, (CHOOSE i \in dots : \A j \in dots : j <= i) - 1)

\* "cluster{}.{}.bed".format(x, path.stem)
FhName(x, stem) ==
    <<"c", "l", "u", "s", "t", "e", "r">>
    \o Str(x) \o <<".">> \o stem \o <<".", "b", "e", "d">>

\* the line print() writes: 'track name="{}" itemRgb="on" visibility=2'
TrackLine(fh_name) ==
    <<"t", "r", "a", "c", "k", " ", "n", "a", "m", "e", "=", "\"">>
    \o fh_name \o
    <<"\"", " ", "i", "t", "e", "m", "R", "g", "b", "=", "\"", "o", "n",
      "\"", " ", "v", "i", "s", "i", "b", "i", "l", "i", "t", "y", "=",
      "2">>
    \o <<"\n">>

\* one turn of the loop of open_clustered_beds: open(fh_path, "w"), print
OpenBed(acc, fs, x, stem) ==
    [acc |-> acc @@ (x :> [name |-> FhName(x, stem), state |-> "open"]),
     fs |-> (FhName(x, stem) :> <<TrackLine(FhName(x, stem))>>)
            @@ fs]

\* fh.close() on every handle of the dictionary
close_clustered_beds(fh_dict) ==
    [x \in DOMAIN fh_dict |-> [fh_dict[x] EXCEPT !.state = "closed"]]

\* clustered[cidx].write(line) for every line of every cluster
RECURSIVE WriteAll(_, _)
WriteAll(content, lines) ==
    IF lines = <<>> THEN content
    ELSE WriteAll(Append(content, lines[1]), Tail(lines))

WriteClustered(fs, acc, groups) ==
    [name \in DOMAIN fs |->
        IF \E cidx \in DOMAIN groups : acc[cidx].name = name
        THEN WriteAll(fs[name],
                      groups[CHOOSE cidx \in DOMAIN groups : acc[cidx].name = name])
        ELSE fs[name]]

(***************************************************************************)
(* main                                                                    *)
(***************************************************************************)
\* at most MaxLines lines follow the header of the input file
MaxLines == 3
\* --n-clusters ranges over 0..MaxK
MaxK == 2

Header == <<"#", "h", "\n">>

InputLines ==
    { BedLine(BedFields(9, 11, <<1>>, <<0>>)),
      BedLine(BedFields(10, 12, <<0>>, <<1>>)),
      BedLine(BedFields(11, 12, <<0>>, <<0>>)),
      BedLine(BedFields(9, 11, <<1, 1>>, <<0>>)),
      BedLine([BedFields(9, 11, <<1>>, <<0>>) EXCEPT ![3] = <<"x">>]) }

RECURSIVE Bodies(_)
Bodies(n) ==
    IF n = 0 THEN {<<>>}
    ELSE Bodies(n - 1) \cup
         {Append(b, l) : b \in {c \in Bodies(n - 1) : Len(c) = n - 1},
                         l \in InputLines}

InputFiles == {<<>>} \cup {<<Header>> \o b : b \in Bodies(MaxLines)}

HighlightArgs ==
    { <<HighlightText(9, 10, <<"+">>)>>,
      <<HighlightText(10, 20, <<"-">>), HighlightText(0 - 5, 10, <<"+">>)>> }

InputName == <<"r", ".", "b", "e", "d">>

Running == [exit |-> "none", exc |-> "none"]
Exited(code) == [exit |-> code, exc |-> "none"]
Uncaught(e) == [exit |-> "1", exc |-> e]

Init ==
    /\ pc = "check_region"
    /\ args \in [input : {InputName}, lines : InputFiles,
                 start : {9, 11}, end : {9, 11},
                 pct : {Frac(1, 3), Frac(9, 10)},
                 n_clusters : 0..MaxK,
                 highlight : HighlightArgs]
    /\ clustered = <<>>
    /\ files = <<>>
    /\ highlights = <<>>
    /\ bedfile = [state |-> "unopened", pos |-> 0]
    /\ binarized_bed = <<>>
    /\ bedlines = <<>>
    /\ results = <<>>
    /\ label_to_arr = <<>>
    /\ cidx_to_line = <<>>
    /\ stdout = <<>>
    /\ status = Running
    /\ inp = <<>>
    /\ out = <<>>

\* slip: the test of the Region left out
CheckRegion_NoCheck ==
    /\ pc = "check_region"
    /\ pc' = "open_clustered_beds"
    /\ UNCHANGED <<args, clustered, files, highlights, bedfile, binarized_bed,
                   bedlines, results, label_to_arr, cidx_to_line, stdout,
                   status, inp, out>>

\* if args.start >= args.end: print(...); sys.exit(1)
CheckRegion ==
    /\ pc = "check_region"
    /\ IF args.start >= args.end
       THEN /\ stdout' = Append(stdout, "Start coordinate must be less than end coordinate")
            /\ status' = Exited("1")
            /\ pc' = "exit"
       ELSE /\ pc' = "open_clustered_beds"
            /\ UNCHANGED <<stdout, status>>
    /\ UNCHANGED <<args, clustered, files, highlights, bedfile, binarized_bed,
                   bedlines, results, label_to_arr, cidx_to_line, inp, out>>

\* for x in range(n): fh = open(fh_path, "w"); print(track line); acc[x] = fh
OpenClusteredBed ==
    /\ pc = "open_clustered_beds"
    /\ Cardinality(DOMAIN clustered) < args.n_clusters
    /\ LET r == OpenBed(clustered, files, Cardinality(DOMAIN clustered),
                        PathStem(args.input))
       IN clustered' = r.acc /\ files' = r.fs
    /\ UNCHANGED <<pc, args, highlights, bedfile, binarized_bed, bedlines,
                   results, label_to_arr, cidx_to_line, stdout, status, inp, out>>

\* open(fh_path, "w") raises: the handles opened so far stay as they are
OpenClusteredBedFails ==
    /\ pc = "open_clustered_beds"
    /\ Cardinality(DOMAIN clustered) < args.n_clusters
    /\ status' = Uncaught("OSError")
    /\ pc' = "raised"
    /\ UNCHANGED <<args, clustered, files, highlights, bedfile, binarized_bed,
                   bedlines, results, label_to_arr, cidx_to_line, stdout, inp, out>>

\* range(n) is exhausted: return acc
OpenClusteredBedsReturn ==
    /\ pc = "open_clustered_beds"
    /\ Cardinality(DOMAIN clustered) >= args.n_clusters
    /\ pc' = "parse_highlights"
    /\ UNCHANGED <<args, clustered, files, highlights, bedfile, binarized_bed,
                   bedlines, results, label_to_arr, cidx_to_line, stdout,
                   status, inp, out>>

\* highlights = [parse_highlights(h, args.start, args.end) for h in args.highlight]
ParseHighlights ==
    /\ pc = "parse_highlights"
    /\ LET hs == [i \in 1..Len(args.highlight) |->
                    parse_highlights(args.highlight[i], args.start, args.end)]
           bad == {i \in 1..Len(hs) : hs[i].kind = "raise"}
       IN IF bad = {}
          THEN /\ highlights' = [i \in 1..Len(hs) |-> hs[i].val]
               /\ pc' = "open_input"
               /\ UNCHANGED status
          ELSE /\ status' = Uncaught(hs[CHOOSE i \in bad : \A j \in bad : i <= j].exc)
               /\ pc' = "raised"
               /\ UNCHANGED highlights
    /\ UNCHANGED <<args, clustered, files, bedfile, binarized_bed, bedlines,
                   results, label_to_arr, cidx_to_line, stdout, inp, out>>

\* with open(args.input, "r") as bedfile: next(bedfile)
OpenInput ==
    /\ pc = "open_input"
    /\ IF args.lines = <<>>
       THEN /\ bedfile' = [state |-> "closed", pos |-> 0]
            /\ status' = Uncaught("StopIteration")
            /\ pc' = "raised"
       ELSE /\ bedfile' = [state |-> "open", pos |-> 1]
            /\ pc' = "read_lines"
            /\ UNCHANGED status
    /\ UNCHANGED <<args, clustered, files, highlights, binarized_bed, bedlines,
                   results, label_to_arr, cidx_to_line, stdout, inp, out>>

\* open(args.input, "r") raises
OpenInputFails ==
    /\ pc = "open_input"
    /\ status' = Uncaught("OSError")
    /\ pc' = "raised"
    /\ UNCHANGED <<args, clustered, files, highlights, bedfile, binarized_bed,
                   bedlines, results, label_to_arr, cidx_to_line, stdout, inp, out>>

\* slip: a kept line written to the first cluster's file as soon as it is read
ReadLine_Streaming ==
    /\ pc = "read_lines"
    /\ bedfile.pos < Len(args.lines)
    /\ LET line == args.lines[bedfile.pos + 1]
           arr == bed_line_cluster_array(line, args.start, args.end)
       IN IF arr.kind = "raise"
          THEN /\ bedfile' = [state |-> "closed", pos |-> bedfile.pos + 1]
               /\ status' = Uncaught(arr.exc)
               /\ pc' = "raised"
               /\ UNCHANGED <<binarized_bed, bedlines, files>>
          ELSE /\ bedfile' = [bedfile EXCEPT !.pos = @ + 1]
               /\ IF Keep(pct_full(arr.val).val, args.pct)
                  THEN /\ binarized_bed' = Append(binarized_bed, convert_nones(arr.val))
                       /\ bedlines' = Append(bedlines, line)
                       /\ files' = IF 0 \in DOMAIN clustered
                                   THEN [files EXCEPT ![clustered[0].name] = Append(@, line)]
                                   ELSE files
                  ELSE UNCHANGED <<binarized_bed, bedlines, files>>
               /\ UNCHANGED <<pc, status>>
    /\ UNCHANGED <<args, clustered, highlights, results, label_to_arr,
                   cidx_to_line, stdout, inp, out>>

\* one turn of "for line in bedfile"
ReadLine ==
    /\ pc = "read_lines"
    /\ bedfile.pos < Len(args.lines)
    /\ LET line == args.lines[bedfile.pos + 1]
           arr == bed_line_cluster_array(line, args.start, args.end)
       IN IF arr.kind = "raise"
          THEN /\ bedfile' = [state |-> "closed", pos |-> bedfile.pos + 1]
               /\ status' = Uncaught(arr.exc)
               /\ pc' = "raised"
               /\ UNCHANGED <<binarized_bed, bedlines>>
          ELSE /\ bedfile' = [bedfile EXCEPT !.pos = @ + 1]
               /\ IF Keep(pct_full(arr.val).val, args.pct)
                  THEN /\ binarized_bed' = Append(binarized_bed, convert_nones(arr.val))
                       /\ bedlines' = Append(bedlines, line)
                  ELSE UNCHANGED <<binarized_bed, bedlines>>
               /\ UNCHANGED <<pc, status>>
    /\ UNCHANGED <<args, clustered, files, highlights, results, label_to_arr,
                   cidx_to_line, stdout, inp, out>>

\* the file is exhausted: the with block closes it
ReadLinesEnd ==
    /\ pc = "read_lines"
    /\ bedfile.pos >= Len(args.lines)
    /\ bedfile' = [bedfile EXCEPT !.state = "closed"]
    /\ pc' = "check_empty"
    /\ UNCHANGED <<args, clustered, files, highlights, binarized_bed, bedlines,
                   results, label_to_arr, cidx_to_line, stdout, status, inp, out>>

\* slip: the test for an empty result left out
CheckEmpty_NoCheck ==
    /\ pc = "check_empty"
    /\ pc' = "kmeans"
    /\ UNCHANGED <<args, clustered, files, highlights, bedfile, binarized_bed,
                   bedlines, results, label_to_arr, cidx_to_line, stdout,
                   status, inp, out>>

\* if not binarized_bed: print(...); sys.exit(1)
CheckEmpty ==
    /\ pc = "check_empty"
    /\ IF binarized_bed = <<>>
       THEN /\ stdout' = Append(stdout, "Empty results, input maybe empty or lower % threshold")
            /\ status' = Exited("1")
            /\ pc' = "exit"
       ELSE /\ pc' = "kmeans"
            /\ UNCHANGED <<stdout, status>>
    /\ UNCHANGED <<args, clustered, files, highlights, bedfile, binarized_bed,
                   bedlines, results, label_to_arr, cidx_to_line, inp, out>>

\* the label lists KMeans(n_clusters=k).fit_predict can return for n samples
Labelings(k, n) == [1..n -> 0..(k - 1)]

\* kmeans = KMeans(n_clusters=args.n_clusters); results = kmeans.fit_predict(...)
\* (the library rejects k <= 0 and k > n_samples with a ValueError)
KMeansFitPredict ==
    /\ pc = "kmeans"
    /\ IF args.n_clusters <= 0 \/ args.n_clusters > Len(binarized_bed)
       THEN /\ status' = Uncaught("ValueError")
            /\ pc' = "raised"
            /\ UNCHANGED results
       ELSE /\ results' \in Labelings(args.n_clusters, Len(binarized_bed))
            /\ pc' = "split"
            /\ UNCHANGED status
    /\ UNCHANGED <<args, clustered, files, highlights, bedfile, binarized_bed,
                   bedlines, label_to_arr, cidx_to_line, stdout, inp, out>>

\* label_to_arr = split_clusters(...); cidx_to_line = split_lines_by_clusters(...)
SplitResults ==
    /\ pc = "split"
    /\ label_to_arr' = split_clusters(results, binarized_bed)
    /\ cidx_to_line' = split_lines_by_clusters(results, bedlines)
    /\ pc' = "write"
    /\ UNCHANGED <<args, clustered, files, highlights, bedfile, binarized_bed,
                   bedlines, results, stdout, status, inp, out>>

\* for cidx, lines in cidx_to_line.items(): for line in lines: write(line)
WriteClusters ==
    /\ pc = "write"
    /\ files' = WriteClustered(files, clustered, cidx_to_line)
    /\ pc' = "close"
    /\ UNCHANGED <<args, clustered, highlights, bedfile, binarized_bed, bedlines,
                   results, label_to_arr, cidx_to_line, stdout, status, inp, out>>

\* close_clustered_beds(clustered)
CloseClusteredBeds ==
    /\ pc = "close"
    /\ clustered' = close_clustered_beds(clustered)
    /\ pc' = "plot"
    /\ UNCHANGED <<args, files, highlights, bedfile, binarized_bed, bedlines,
                   results, label_to_arr, cidx_to_line, stdout, status, inp, out>>

\* the figure is drawn and saved; print("Output file to: ", output)
Plot ==
    /\ pc = "plot"
    /\ stdout' = Append(stdout, "Output file to: ")
    /\ status' = Exited("0")
    /\ pc' = "done"
    /\ UNCHANGED <<args, clustered, files, highlights, bedfile, binarized_bed,
                   bedlines, results, label_to_arr, cidx_to_line, inp, out>>

Next ==
    \/ CheckRegion
    \/ OpenClusteredBed
    \/ OpenClusteredBedFails
    \/ OpenClusteredBedsReturn
    \/ ParseHighlights
    \/ OpenInput
    \/ OpenInputFails
    \/ ReadLine
    \/ ReadLinesEnd
    \/ CheckEmpty
    \/ KMeansFitPredict
    \/ SplitResults
    \/ WriteClusters
    \/ CloseClusteredBeds
    \/ Plot

Spec == Init /\ [][Next]_vars

Terminated == pc \in {"done", "exit", "raised"}

(***************************************************************************)
(* Properties of bed_line_cluster_array (SpecVec).                         *)
(***************************************************************************)
Returned(fn) == pc = "returned" /\ inp.fn = fn

\* the block intervals of the read: one per (offset, length) pair
InBlock(pos) ==
    \E i \in 1..Min(Len(inp.starts), Len(inp.blocks)) :
        /\ inp.read_start + inp.starts[i] <= pos
        /\ pos <= inp.read_start + inp.starts[i] + inp.blocks[i]

InSpan(pos) == inp.read_start <= pos /\ pos <= inp.read_stop

StateOf(pos) ==
    IF InBlock(pos) THEN Occupied ELSE IF InSpan(pos) THEN Linker ELSE None

\* C3: for a Region with start < end and any read record, the vector returned
\* has exactly end - start + 1 entries and entry i (from 0) is the state of
\* position start + i.
C3_VectorLength ==
    (Returned("bed_line_cluster_array") /\ inp.shape = "record"
        /\ inp.cluster_start < inp.cluster_stop)
    => /\ out.kind = "return"
       /\ Len(out.val) = inp.cluster_stop - inp.cluster_start + 1
       /\ \A i \in 0..(inp.cluster_stop - inp.cluster_start) :
              out.val[i + 1] = StateOf(inp.cluster_start + i)

\* a read that starts left of the Region and ends inside it, one block reaching
\* past the Region's end
C3_Witness ==
    /\ Returned("bed_line_cluster_array") /\ inp.shape = "record"
    /\ inp.cluster_start < inp.cluster_stop
    /\ inp.read_start < inp.cluster_start /\ inp.read_stop < inp.cluster_stop
    /\ \E i \in 1..Len(inp.starts) :
           i <= Len(inp.blocks)
           /\ inp.read_start + inp.starts[i] + inp.blocks[i] > inp.cluster_stop
    /\ out.kind = "return"
    /\ Len(out.val) = inp.cluster_stop - inp.cluster_start + 1

\* C4: every Region position inside a block interval holds 1, also when it is
\* inside the read span; a position holds 0 only if it is in the span and in
\* no block interval.
C4_BlockWins ==
    (Returned("bed_line_cluster_array") /\ out.kind = "return")
    => \A pos \in inp.cluster_start..inp.cluster_stop :
          LET v == out.val[pos - inp.cluster_start + 1]
          IN /\ InBlock(pos) => v = Occupied
             /\ v = Linker => (InSpan(pos) /\ ~InBlock(pos))

\* a position covered by span and block holds 1, another holds 0
C4_Witness ==
    /\ Returned("bed_line_cluster_array") /\ out.kind = "return"
    /\ \E p, q \in inp.cluster_start..inp.cluster_stop :
          /\ InBlock(p) /\ InSpan(p)
          /\ out.val[p - inp.cluster_start + 1] = Occupied
          /\ out.val[q - inp.cluster_start + 1] = Linker

\* C7: a line with fewer than 12 fields, with block lists of different
\* lengths, or with a non-integer read_start, read_stop or block entry fails
\* to parse and yields no vector.
C7_ParseErrors ==
    (Returned("bed_line_cluster_array")
        /\ \/ inp.shape = "truncated"
           \/ inp.shape = "spoiled"
           \/ Len(inp.blocks) # Len(inp.starts))
    => out.kind = "raise"

(***************************************************************************)
(* Properties of pct_full and of the coverage test (SpecPct).              *)
(***************************************************************************)
IsNone(x) == x = None
Missing(arr) == Len(SelectSeq(arr, IsNone))

\* C5: a record is kept iff 1 - count(MISSING)/length > threshold; the
\* fraction is 1 with no MISSING entry (kept iff threshold < 1), 0 when all
\* entries are MISSING (never kept), and a fraction equal to the threshold
\* drops the record.  Vectors of length >= 1.
C5_StrictThreshold ==
    (pc = "returned" /\ inp.fn \in {"pct_full", "nb_pct_full"}
        /\ Len(inp.arr) >= 1)
    => LET n == Len(inp.arr)
           m == Missing(inp.arr)
           t == inp.pct
       IN /\ out.frac.kind = "return"
          /\ out.frac.val.den > 0
          /\ out.frac.val.num * n = (n - m) * out.frac.val.den
          /\ out.kept <=> (n - m) * t.den > t.num * n
          /\ m = 0 => /\ out.frac.val.num = out.frac.val.den
                      /\ out.kept <=> t.num < t.den
          /\ m = n => out.frac.val.num = 0 /\ ~out.kept
          /\ (n - m) * t.den = t.num * n => ~out.kept

\* a fraction of one half met by a threshold of one half: dropped
C5_Witness ==
    /\ Returned("pct_full")
    /\ Len(inp.arr) = 4 /\ Missing(inp.arr) = 2 /\ inp.pct = Frac(1, 2)
    /\ ~out.kept

\* C6 as stated: an empty vector makes the coverage computation fail with a
\* validation error, neither returning a fraction nor dividing by zero.
C6_FailsFast ==
    (pc = "returned" /\ inp.fn \in {"pct_full", "nb_pct_full"}
        /\ Len(inp.arr) = 0)
    => out.frac.kind = "raise" /\ out.frac.exc = "ValidationError"

\* C6 amended: on an empty vector pct_full of scripts/ returns 0.0 without
\* dividing, so the record is dropped; pct_full of notebooks/ divides by zero.
C6_EmptyVector ==
    (pc = "returned" /\ Len(inp.arr) = 0)
    => /\ inp.fn = "pct_full" => out.frac = Return(Frac(0, 1)) /\ ~out.kept
       /\ inp.fn = "nb_pct_full" => out.frac = Raise("ZeroDivisionError")

C6_Witness ==
    /\ Returned("pct_full") /\ Len(inp.arr) = 0
    /\ out.frac.kind = "return"

(***************************************************************************)
(* Properties of parse_highlights (SpecHl).                                *)
(***************************************************************************)
Max(a, b) == IF a > b THEN a ELSE b

\* C8: every specification start-end:strand, a negative start included,
\* resolves to (max(start, Region.start), min(end, Region.end), strand).
C8_Clamped ==
    Returned("parse_highlights")
    => out = Return([start |-> Max(inp.start, inp.region_start),
                     end |-> Min(inp.end, inp.region_end),
                     strand |-> inp.strand])

\* C9 as stated: every Highlight returned lies inside the Region.
C9_InsideRegion ==
    (Returned("parse_highlights") /\ out.kind = "return")
    => /\ inp.region_start <= out.val.start /\ out.val.start <= inp.region_end
       /\ inp.region_start <= out.val.end /\ out.val.end <= inp.region_end

\* C9 amended: the start returned is never left of the Region and the end
\* never right of it; the start is inside the Region when the start written
\* is not right of it, the end when the end written is not left of it.
C9_OneSidedClamp ==
    (Returned("parse_highlights") /\ out.kind = "return")
    => /\ inp.region_start <= out.val.start
       /\ out.val.end <= inp.region_end
       /\ inp.start <= inp.region_end => out.val.start <= inp.region_end
       /\ inp.end >= inp.region_start => out.val.end >= inp.region_start

\* a highlight that starts left of the Region and ends right of it
C9_Witness ==
    /\ Returned("parse_highlights") /\ out.kind = "return"
    /\ inp.start < inp.region_start /\ inp.end > inp.region_end
    /\ out.val.start = inp.region_start /\ out.val.end = inp.region_end

(***************************************************************************)
(* Properties of a run of main (Spec).                                     *)
(***************************************************************************)
Count(seq, t) == Cardinality({i \in 1..Len(seq) : seq[i] = t})

RECURSIVE SumOver(_, _)
SumOver(f, S) ==
    IF S = {} THEN 0
    ELSE LET x == CHOOSE y \in S : TRUE IN f[x] + SumOver(f, S \ {x})

Partitioned == pc \in {"write", "close", "plot", "done"}

\* C1: the per-label groups of split_lines_by_clusters hold every kept line
\* exactly once: each text occurs in the groups as often as among the kept
\* lines, and the group sizes add up to the number of kept lines.
C1_PartitionExact ==
    Partitioned
    => /\ Len(results) = Len(bedlines)
       /\ SumOver([l \in DOMAIN cidx_to_line |-> Len(cidx_to_line[l])],
                  DOMAIN cidx_to_line) = Len(bedlines)
       /\ \A t \in InputLines :
             SumOver([l \in DOMAIN cidx_to_line |-> Count(cidx_to_line[l], t)],
                     DOMAIN cidx_to_line) = Count(bedlines, t)
       /\ \A l \in DOMAIN cidx_to_line :
             \A i \in 1..Len(cidx_to_line[l]) : cidx_to_line[l][i] \in InputLines

\* the same line text kept twice and put into one group
C1_Witness ==
    /\ Partitioned
    /\ Len(bedlines) = 2 /\ bedlines[1] = bedlines[2]
    /\ results[1] = results[2]
    /\ Len(cidx_to_line[results[1]]) = 2

\* positions (from 1, the header) of the input lines that pass the filter
KeptPositions ==
    {i \in 2..Len(args.lines) :
        LET a == bed_line_cluster_array(args.lines[i], args.start, args.end)
        IN a.kind = "return"
           /\ (Len(a.val) - Missing(a.val)) * args.pct.den
                 > args.pct.num * Len(a.val)}

\* the j-th smallest element of a set of numbers
Nth(S, j) == CHOOSE p \in S : Cardinality({q \in S : q < p}) = j - 1

\* of the kept positions kp, those of the lines labelled x
PositionsOf(kp, x) ==
    {Nth(kp, j) : j \in {k \in 1..Len(results) : results[k] = x}}

\* the input lines at the positions ps, in input order
LinesAt(ps) == [j \in 1..Cardinality(ps) |-> args.lines[Nth(ps, j)]]

Written == pc \in {"close", "plot", "done"}

\* the track declaration of the claim, for input r.bed
DeclaredTrack(x) ==
    <<"t", "r", "a", "c", "k", " ", "n", "a", "m", "e", "=", "\"", "c",
      "l", "u", "s", "t", "e", "r">>
    \o Str(x) \o
    <<".", "r", "\"", " ", "i", "t", "e", "m", "R", "g", "b", "=", "\"",
      "o", "n", "\"", " ", "v", "i", "s", "i", "b", "i", "l", "i", "t",
      "y", "=", "2", "\n">>

\* the track declaration written, for input r.bed
FileNameTrack(x) ==
    <<"t", "r", "a", "c", "k", " ", "n", "a", "m", "e", "=", "\"", "c",
      "l", "u", "s", "t", "e", "r">>
    \o Str(x) \o
    <<".", "r", ".", "b", "e", "d", "\"", " ", "i", "t", "e", "m", "R",
      "g", "b", "=", "\"", "o", "n", "\"", " ", "v", "i", "s", "i", "b",
      "i", "l", "i", "t", "y", "=", "2", "\n">>

OutputName(x) ==
    <<"c", "l", "u", "s", "t", "e", "r">>
    \o Str(x) \o <<".", "r", ".", "b", "e", "d">>

\* C2 as stated: the file of every label starts with
\* track name="cluster{label}.{input_stem}" itemRgb="on" visibility=2 and goes
\* on with the input lines of that label, verbatim and in input order; the
\* header is not among them.
C2_TrackDeclaration ==
    Written
    => LET kp == KeptPositions
       IN \A x \in 0..(args.n_clusters - 1) :
             /\ OutputName(x) \in DOMAIN files
             /\ files[OutputName(x)]
                   = <<DeclaredTrack(x)>> \o LinesAt(PositionsOf(kp, x))

\* C2 amended: the name in the track declaration is the file's name,
\* cluster{label}.{input_stem}.bed; the rest as stated.
C2_FileContent ==
    Written
    => LET kp == KeptPositions
       IN /\ Cardinality(kp) = Len(results)
          /\ \A x \in 0..(args.n_clusters - 1) :
                /\ OutputName(x) \in DOMAIN files
                /\ files[OutputName(x)]
                      = <<FileNameTrack(x)>> \o LinesAt(PositionsOf(kp, x))

\* two different lines with one label, a dropped line between them
C2_Witness ==
    /\ pc = "done"
    /\ Len(args.lines) = 4
    /\ KeptPositions = {2, 4}
    /\ args.lines[2] # args.lines[4]
    /\ results[1] = results[2]
    /\ Len(files[OutputName(results[1])]) = 3

\* C10: in every terminal state of main no per-cluster handle is open.
C10_HandlesClosed ==
    Terminated => \A x \in DOMAIN clustered : clustered[x].state = "closed"

InvalidK ==
    args.n_clusters <= 0 \/ args.n_clusters > Len(binarized_bed)

\* C12: an invalid clustering request (k <= 0, or k greater than the number
\* of records kept) is fatal: the run never gets past the clustering step and
\* k is not reduced; and when the request fails no per-cluster output file
\* has been created or written.
C12_InvalidKBeforeWork ==
    /\ (Partitioned \/ pc = "split")
       => /\ ~InvalidK
          /\ Cardinality(DOMAIN clustered) = args.n_clusters
          /\ \A i \in 1..Len(results) : results[i] \in 0..(args.n_clusters - 1)
    /\ (Terminated /\ InvalidK /\ args.start < args.end) => status.exit = "1"
    /\ (pc = "kmeans" /\ InvalidK) => DOMAIN files = {}

\* C13: when no record survives the coverage filter the run prints a
\* diagnostic and exits with a non-zero status; the clustering step is not
\* invoked and no record line is written to any per-cluster file.
C13_EmptyResultsExit ==
    /\ pc \in {"kmeans", "split", "write", "close", "plot", "done"}
       => binarized_bed # <<>>
    /\ (pc = "exit" /\ args.start < args.end)
       => /\ binarized_bed = <<>> /\ bedlines = <<>>
          /\ bedfile = [state |-> "closed", pos |-> Len(args.lines)]
          /\ status = Exited("1")
          /\ stdout = <<"Empty results, input maybe empty or lower % threshold">>
          /\ results = <<>>
          /\ \A name \in DOMAIN files : Len(files[name]) = 1

\* records in the input, all of them dropped, the output files already open
C13_Witness ==
    /\ pc = "exit" /\ args.start < args.end
    /\ Len(args.lines) >= 3 /\ binarized_bed = <<>>
    /\ args.n_clusters >= 1 /\ DOMAIN files # {}
    /\ status.exit = "1"

VectorOf(line) ==
    convert_nones(bed_line_cluster_array(line, args.start, args.end).val)

\* C15: the kept lines and the imputed vectors are index-aligned: equal
\* length and, while and after the input is filtered, the i-th vector built
\* from the i-th kept line, both from the kept input lines read so far in
\* input order; and once partitioned, for every label the groups of
\* split_clusters and split_lines_by_clusters have equal size, the j-th
\* vector and the j-th line being those of the same kept record.
C15_IndexAligned ==
    /\ Len(bedlines) = Len(binarized_bed)
    /\ pc \in {"read_lines", "check_empty", "kmeans"}
       => /\ \A i \in 1..Len(bedlines) : binarized_bed[i] = VectorOf(bedlines[i])
          /\ LET kp == {p \in KeptPositions : p <= bedfile.pos}
             IN bedlines = LinesAt(kp)
    /\ Partitioned
       => /\ Len(results) = Len(bedlines)
          /\ DOMAIN label_to_arr = DOMAIN cidx_to_line
          /\ \A l \in DOMAIN cidx_to_line :
                LET idx == {i \in 1..Len(results) : results[i] = l}
                IN /\ Len(label_to_arr[l]) = Len(cidx_to_line[l])
                   /\ Len(cidx_to_line[l]) = Cardinality(idx)
                   /\ \A j \in 1..Len(cidx_to_line[l]) :
                         /\ cidx_to_line[l][j] = bedlines[Nth(idx, j)]
                         /\ label_to_arr[l][j] = binarized_bed[Nth(idx, j)]

\* two labels in use, one of them with two lines whose vectors differ
C15_Witness ==
    /\ Partitioned
    /\ Cardinality(DOMAIN cidx_to_line) = 2
    /\ \E l \in DOMAIN cidx_to_line :
          /\ Len(cidx_to_line[l]) = 2
          /\ label_to_arr[l][1] # label_to_arr[l][2]
          /\ label_to_arr[l][1] = VectorOf(cidx_to_line[l][1])

====
